---- MODULE Spec2Model ----
(***************************************************************************)
(* Model of atd-cctv-images: cctv/camera.py (class Camera) and             *)
(* cctv/process_images.py (worker, main).                                  *)
(*                                                                         *)
(* main() puts every valid Camera on one asyncio.Queue, starts max_workers *)
(* worker tasks on a single event loop and awaits queue.join().  A worker  *)
(* loops: queue.get(), camera.download(), camera.upload(),                 *)
(* queue.task_done(), queue.put().  Tasks are cooperative: one task owns   *)
(* the event loop (running) until it suspends at an await that really      *)
(* waits: a get on an empty queue, the HTTP GET, the S3 put_object.        *)
(***************************************************************************)
EXTENDS Integers, Sequences, FiniteSets

\* ---------------------------------------------------------------- bounds
MaxCameras == 2
MaxWorkers == 2
MaxByte == 1
MaxStreak == 2
MaxHung == 1

\* ------------------------------------------------------ program constants
EXCEPTION_LIMIT == 5
\* exception_limit values a Camera is constructed with (1, the limit of the
\* docstring and of the scenarios, 3, and the default EXCEPTION_LIMIT)
Limits == {1, 3, EXCEPTION_LIMIT}

\* bytes objects: the fallback image and the bodies a camera may answer with
\* (<<>> is an empty body, which is falsy in Python)
FallbackImg == <<0>>
Bodies == {<<>>} \cup {<<b>> : b \in 1..MaxByte}

\* Optional[bytes]: {} is None, {b} is the bytes object b
None == {}
Some(b) == {b}

\* outcomes of `await session.get(...)` + raise_for_status + header check
FetchOutcomes ==
  {"ok", "request_error", "http_4xx", "http_5xx",
   "bad_content_type", "missing_header", "other_error"}
\* failures that are not an HTTP client error and are classified by _download
NonClientFailures ==
  {"request_error", "http_5xx", "bad_content_type", "missing_header"}
\* outcomes of `await boto_client.put_object(...)`
PutOutcomes == {"ok", "falsy", "raise"}

NoTask == 0

VARIABLES
  exception_limit,         \* Camera.exception_limit (same for every Camera)
  cancelled_is_exception,  \* asyncio.CancelledError derives from Exception (Python < 3.8)
  cams,                    \* camera -> [image, is_fallback_uploaded, exception_count]
  store,                   \* camera -> object under image/<id>.jpg: None or Some(bytes)
  queue,                   \* asyncio.Queue items (cameras), head first
  getters,                 \* asyncio.Queue._getters: workers waiting in get(), head first
  unfinished_tasks,        \* asyncio.Queue._unfinished_tasks
  pc,                      \* worker -> position in worker()
  camera,                  \* worker -> local `camera` (0 when it holds none)
  put_body,                \* worker -> Body of its put_object in flight
  must_cancel,             \* worker -> task.cancel() requested and not yet delivered
  running,                 \* the worker that owns the event loop, or NoTask
  main_pc,                 \* position of main()
  join_woken,              \* the future main awaits in queue.join() is resolved
  fetch_result,            \* worker -> how download() ended in its current cycle
  upload_result,           \* worker -> how upload() ended in its current cycle
  streak,                  \* camera -> non-client fetch failures since the last success
  fallback_confirmed,      \* camera -> fallback written and no successful fetch since
  hung,                    \* cameras whose endpoint never answers a GET
  ahead                    \* camera -> cameras that were waiting in the queue when it
                           \* was last put there and have not started a cycle since

vars ==
  <<exception_limit, cancelled_is_exception, cams, store, queue, getters,
    unfinished_tasks, pc, camera, put_body, must_cancel, running, main_pc,
    join_woken, fetch_result, upload_result, streak, fallback_confirmed,
    hung, ahead>>

Cameras == DOMAIN cams
Workers == DOMAIN pc

\* ------------------------------------------------------------ class Camera

NewCamera ==
  [image |-> None, is_fallback_uploaded |-> FALSE, exception_count |-> 0]

_raise_exception_dec(cam) == [cam EXCEPT !.exception_count = @ - 1]

\* _raise_exception: `self.exception_count + 1` is an expression statement,
\* its value is discarded, so the Camera is left as it was; then it raises.
_raise_exception(cam) == cam

is_disabled_gt(cam) == cam.exception_count > exception_limit
is_disabled(cam) == cam.exception_count >= exception_limit

\* `not self.image`: None or an empty bytes object
NoImage(cam) == cam.image = None \/ cam.image = Some(<<>>)

\* download(), line 130: clear image if held from previous download
ClearImage_keep(cam) == cam
ClearImage(cam) == [cam EXCEPT !.image = None]

DownloadFailed_5xx(cam, outcome) ==
  CASE outcome = "http_5xx" ->
         _raise_exception([cam EXCEPT !.exception_count = exception_limit])
    [] outcome \in NonClientFailures \cup {"http_4xx"} -> _raise_exception(cam)
    [] OTHER -> cam

\* _download() raising: the handler for each outcome of the GET
\* (an outcome that is neither an httpx.RequestError nor an
\* httpx.HTTPStatusError passes through _download untouched)
DownloadFailed(cam, outcome) ==
  CASE outcome = "http_4xx" ->
         _raise_exception([cam EXCEPT !.exception_count = exception_limit])
    [] outcome \in NonClientFailures -> _raise_exception(cam)
    [] OTHER -> cam

\* download() after _download returned response.content
DownloadSucceeded(cam, body) ==
  [cam EXCEPT !.image = Some(body), !.exception_count = 0]

\* upload(), line 189: the fallback is already in S3, nothing to write
SkipUpload_never(cam) == FALSE
SkipUpload(cam) == NoImage(cam) /\ cam.is_fallback_uploaded

\* upload(), line 201: Body=self.image or self.fallback_img
Body_unless_none(cam) ==
  IF cam.image = None THEN FallbackImg ELSE CHOOSE b \in Bodies : cam.image = Some(b)
Body(cam) ==
  IF NoImage(cam) THEN FallbackImg ELSE CHOOSE b \in Bodies : cam.image = Some(b)

\* upload() after put_object resolved
UploadResumed_noreset(cam, outcome) ==
  CASE outcome = "ok" ->
         [cam EXCEPT !.is_fallback_uploaded = @ \/ NoImage(cam)]
    [] outcome = "falsy" ->
         _raise_exception(
           _raise_exception([cam EXCEPT !.is_fallback_uploaded = FALSE]))
    [] OTHER -> _raise_exception(cam)
UploadResumed(cam, outcome) ==
  CASE outcome = "ok" ->
         [cam EXCEPT !.is_fallback_uploaded = NoImage(cam)]
    [] outcome = "falsy" ->
         _raise_exception(
           _raise_exception([cam EXCEPT !.is_fallback_uploaded = FALSE]))
    [] OTHER -> _raise_exception(cam)

\* ------------------------------------------------------------ bookkeeping

Min(a, b) == IF a < b THEN a ELSE b

\* streak after a download() call that ended `outcome`
NextStreak(s, outcome) ==
  CASE outcome = "ok" -> 0
    [] outcome \in NonClientFailures ->
         IF s < 0 THEN s ELSE Min(s + 1, MaxStreak)
    [] OTHER -> -1

\* ------------------------------------------------------------------- Init

\* main() up to `await queue.join()`: one Camera per valid record, all of
\* them put on the queue in roster order, max_workers tasks created
\* (rosters of a size in ns, pools of a size in ws, limits in ls; the first
\* k cameras of the roster never answer)
InitWith(ns, ws, ls, k) ==
  /\ exception_limit \in ls
  /\ cancelled_is_exception = FALSE
  /\ \E n \in ns :
       /\ cams = [c \in 1..n |-> NewCamera]
       /\ store = [c \in 1..n |-> None]
       /\ queue = [i \in 1..n |-> i]
       /\ unfinished_tasks = n
       /\ streak = [c \in 1..n |-> 0]
       /\ fallback_confirmed = [c \in 1..n |-> FALSE]
       /\ ahead = [c \in 1..n |-> 1..(c - 1)]
  /\ hung = 1..k
  /\ \E max_workers \in ws :
       /\ pc = [w \in 1..max_workers |-> "start"]
       /\ camera = [w \in 1..max_workers |-> 0]
       /\ put_body = [w \in 1..max_workers |-> None]
       /\ must_cancel = [w \in 1..max_workers |-> FALSE]
       /\ fetch_result = [w \in 1..max_workers |-> "none"]
       /\ upload_result = [w \in 1..max_workers |-> "none"]
  /\ getters = <<>>
  /\ running = NoTask
  /\ main_pc = "join"
  /\ join_woken = FALSE

\* every camera of the roster answers its GETs
Init == InitWith(1..MaxCameras, 1..MaxWorkers, Limits, 0)

\* ----------------------------------------------------------------- worker

camVars == <<cams, store, streak, fallback_confirmed>>
resultVars == <<fetch_result, upload_result>>
queueVars == <<queue, getters, unfinished_tasks, join_woken, ahead>>
constVars == <<exception_limit, cancelled_is_exception, hung>>

\* the event loop runs a task created by asyncio.create_task for the first time
Start(w) ==
  /\ pc[w] = "start" /\ running = NoTask /\ ~must_cancel[w]
  /\ pc' = [pc EXCEPT ![w] = "get"]
  /\ running' = w
  /\ UNCHANGED <<constVars, camVars, resultVars, queueVars, camera, put_body,
                 must_cancel, main_pc>>

\* the item get_nowait() returns: asyncio.Queue is first in, first out
NextItem_last(q) == q[Len(q)]
NextItem(q) == Head(q)

\* the items left in the queue after get_nowait() returned its head
Dequeue_peek(q) == q
Dequeue(q) == Tail(q)

\* camera = await queue.get(): returns at once when the queue holds an item,
\* else appends a getter future and suspends
Get(w) ==
  /\ pc[w] = "get" /\ running = w
  /\ IF queue = <<>>
       THEN /\ getters' = Append(getters, w)
            /\ pc' = [pc EXCEPT ![w] = "wait_get"]
            /\ running' = NoTask
            /\ UNCHANGED <<queue, camera, ahead>>
       ELSE /\ camera' = [camera EXCEPT ![w] = NextItem(queue)]
            /\ queue' = Dequeue(queue)
            /\ ahead' = [c \in Cameras |-> ahead[c] \ {NextItem(queue)}]
            /\ pc' = [pc EXCEPT ![w] = "download"]
            /\ UNCHANGED <<getters, running>>
  /\ UNCHANGED <<constVars, camVars, resultVars, unfinished_tasks, join_woken,
                 put_body, must_cancel, main_pc>>

\* a getter woken by put() runs again and re-tests `while self.empty()`
GetResume(w) ==
  /\ pc[w] = "get_woken" /\ running = NoTask /\ ~must_cancel[w]
  /\ pc' = [pc EXCEPT ![w] = "get"]
  /\ running' = w
  /\ UNCHANGED <<constVars, camVars, resultVars, queueVars, camera, put_body,
                 must_cancel, main_pc>>

AfterDownload_uncaught(outcome) == IF outcome = "ok" THEN "upload" ELSE "raised"
AfterDownload_skip(outcome) == IF outcome = "ok" THEN "upload" ELSE "task_done"

\* worker, lines 97-110: whatever download() returned or raised is caught
\* and logged, and the worker goes on to upload()
AfterDownload(outcome) == "upload"

\* await camera.download(session), up to the GET: a disabled Camera raises
\* at once (caught by worker); otherwise the image is cleared and the task
\* suspends in session.get
Download(w) ==
  /\ pc[w] = "download" /\ running = w
  /\ LET c == camera[w] IN
     IF is_disabled(cams[c])
       THEN /\ cams' = [cams EXCEPT ![c] = _raise_exception(cams[c])]
            /\ fetch_result' = [fetch_result EXCEPT ![w] = "disabled"]
            /\ pc' = [pc EXCEPT ![w] = AfterDownload("disabled")]
            /\ UNCHANGED running
       ELSE /\ cams' = [cams EXCEPT ![c] = ClearImage(cams[c])]
            /\ fetch_result' = [fetch_result EXCEPT ![w] = "pending"]
            /\ pc' = [pc EXCEPT ![w] = "fetching"]
            /\ running' = NoTask
  /\ UNCHANGED <<constVars, store, streak, fallback_confirmed, upload_result,
                 queueVars, camera, put_body, must_cancel, main_pc>>

\* the GET resolved and the event loop resumes the task: the rest of
\* _download and download, then worker's except clause
FetchResume(w) ==
  /\ pc[w] = "fetching" /\ running = NoTask /\ ~must_cancel[w]
  /\ camera[w] \notin hung
  /\ LET c == camera[w] IN
     \E outcome \in FetchOutcomes, body \in Bodies :
       /\ cams' = [cams EXCEPT ![c] =
                     IF outcome = "ok" THEN DownloadSucceeded(cams[c], body)
                     ELSE DownloadFailed(cams[c], outcome)]
       /\ fetch_result' = [fetch_result EXCEPT ![w] = outcome]
       /\ streak' = [streak EXCEPT ![c] = NextStreak(streak[c], outcome)]
       /\ fallback_confirmed' =
            [fallback_confirmed EXCEPT ![c] = IF outcome = "ok" THEN FALSE ELSE @]
       /\ pc' = [pc EXCEPT ![w] = AfterDownload(outcome)]
  /\ running' = w
  /\ UNCHANGED <<constVars, store, upload_result, queueVars, camera, put_body,
                 must_cancel, main_pc>>

\* await camera.upload(boto_client), up to put_object: either the write is
\* skipped and upload returns True, or the task suspends in put_object
Upload(w) ==
  /\ pc[w] = "upload" /\ running = w
  /\ LET c == camera[w] IN
     IF SkipUpload(cams[c])
       THEN /\ upload_result' = [upload_result EXCEPT ![w] = "skipped"]
            /\ pc' = [pc EXCEPT ![w] = "task_done"]
            /\ UNCHANGED <<put_body, running>>
       ELSE /\ upload_result' = [upload_result EXCEPT ![w] = "pending"]
            /\ put_body' = [put_body EXCEPT ![w] = Some(Body(cams[c]))]
            /\ pc' = [pc EXCEPT ![w] = "putting"]
            /\ running' = NoTask
  /\ UNCHANGED <<constVars, camVars, fetch_result, queueVars, camera,
                 must_cancel, main_pc>>

\* put_object resolved and the event loop resumes the task: the rest of
\* upload, then worker's except clause
PutResume(w) ==
  /\ pc[w] = "putting" /\ running = NoTask /\ ~must_cancel[w]
  /\ LET c == camera[w] IN
     \E outcome \in PutOutcomes :
       /\ cams' = [cams EXCEPT ![c] = UploadResumed(cams[c], outcome)]
       /\ store' = [store EXCEPT ![c] = IF outcome = "ok" THEN put_body[w] ELSE @]
       /\ upload_result' = [upload_result EXCEPT ![w] =
            CASE outcome = "ok" /\ NoImage(cams[c]) -> "wrote_fallback"
              [] outcome = "ok" /\ ~NoImage(cams[c]) -> "wrote_image"
              [] OTHER -> "failed"]
       /\ fallback_confirmed' = [fallback_confirmed EXCEPT ![c] =
            IF outcome = "ok" /\ NoImage(cams[c]) THEN TRUE ELSE @]
  /\ put_body' = [put_body EXCEPT ![w] = None]
  /\ pc' = [pc EXCEPT ![w] = "task_done"]
  /\ running' = w
  /\ UNCHANGED <<constVars, streak, fetch_result, queueVars, camera,
                 must_cancel, main_pc>>

\* queue.task_done(): one unfinished task less; at zero the _finished event
\* is set, which resolves the future join() awaits
TaskDone(w) ==
  /\ pc[w] = "task_done" /\ running = w
  /\ unfinished_tasks' = unfinished_tasks - 1
  /\ join_woken' = (join_woken \/ (unfinished_tasks' = 0 /\ main_pc = "join"))
  /\ pc' = [pc EXCEPT ![w] = "put"]
  /\ UNCHANGED <<constVars, camVars, resultVars, queue, getters, ahead, camera,
                 put_body, must_cancel, running, main_pc>>

Enqueue_drop(q, c) == IF is_disabled(cams[c]) THEN q ELSE Append(q, c)

\* the items of the queue after put_nowait(c)
Enqueue(q, c) == Append(q, c)

\* await queue.put(camera): the queue is unbounded, so put never suspends;
\* put_nowait appends, counts the task and wakes the first waiting getter.
\* The worker then starts its next iteration.
Put(w) ==
  /\ pc[w] = "put" /\ running = w
  /\ queue' = Enqueue(queue, camera[w])
  /\ ahead' = [ahead EXCEPT ![camera[w]] = {queue[i] : i \in DOMAIN queue}]
  /\ unfinished_tasks' = unfinished_tasks + 1
  /\ IF getters # <<>>
       THEN /\ getters' = Tail(getters)
            /\ pc' = [pc EXCEPT ![w] = "get", ![Head(getters)] = "get_woken"]
       ELSE /\ pc' = [pc EXCEPT ![w] = "get"]
            /\ UNCHANGED getters
  /\ camera' = [camera EXCEPT ![w] = 0]
  /\ fetch_result' = [fetch_result EXCEPT ![w] = "none"]
  /\ upload_result' = [upload_result EXCEPT ![w] = "none"]
  /\ UNCHANGED <<constVars, camVars, join_woken, put_body, must_cancel,
                 running, main_pc>>

\* ------------------------------------------------------------------- main

\* queue.join() returns; main leaves both `async with` blocks, which close
\* the HTTP session and the S3 client
JoinReturns ==
  /\ main_pc = "join" /\ join_woken /\ running = NoTask
  /\ main_pc' = "closed"
  /\ UNCHANGED <<constVars, camVars, resultVars, queueVars, pc, camera,
                 put_body, must_cancel, running>>

\* for task in tasks: task.cancel(); then main awaits asyncio.gather.
\* Whether CancelledError is an Exception depends on the interpreter the
\* program runs on; it first matters here.
CancelTasks ==
  /\ main_pc = "closed" /\ running = NoTask
  /\ must_cancel' = [w \in Workers |-> TRUE]
  /\ cancelled_is_exception' \in BOOLEAN
  /\ main_pc' = "gather"
  /\ UNCHANGED <<exception_limit, hung, camVars, resultVars, queueVars, pc,
                 camera, put_body, running>>

\* the event loop throws CancelledError into a cancelled task at the await
\* it is suspended in.  Nothing in worker catches it in get().  Around
\* download and upload it is caught as an Exception only where
\* CancelledError derives from Exception; elsewhere the task ends.
Cancelled(w) ==
  /\ must_cancel[w] /\ running = NoTask
  /\ pc[w] \in {"start", "wait_get", "get_woken", "fetching", "putting"}
  /\ must_cancel' = [must_cancel EXCEPT ![w] = FALSE]
  /\ LET c == camera[w] IN
     IF cancelled_is_exception /\ pc[w] = "fetching"
       THEN /\ pc' = [pc EXCEPT ![w] = "upload"]
            /\ running' = w
            /\ fetch_result' = [fetch_result EXCEPT ![w] = "other_error"]
            /\ streak' = [streak EXCEPT ![c] = NextStreak(streak[c], "other_error")]
            /\ UNCHANGED <<cams, upload_result, getters, put_body>>
     ELSE IF cancelled_is_exception /\ pc[w] = "putting"
       THEN /\ pc' = [pc EXCEPT ![w] = "task_done"]
            /\ running' = w
            /\ cams' = [cams EXCEPT ![c] = UploadResumed(cams[c], "raise")]
            /\ upload_result' = [upload_result EXCEPT ![w] = "failed"]
            /\ put_body' = [put_body EXCEPT ![w] = None]
            /\ UNCHANGED <<fetch_result, streak, getters>>
       ELSE /\ pc' = [pc EXCEPT ![w] = "cancelled"]
            /\ getters' = SelectSeq(getters, LAMBDA g : g # w)
            /\ UNCHANGED <<cams, resultVars, streak, put_body, running>>
  /\ UNCHANGED <<constVars, store, fallback_confirmed, queue, unfinished_tasks,
                 join_woken, ahead, camera, main_pc>>

\* asyncio.gather(*tasks, return_exceptions=True) returns: every task ended
GatherReturns ==
  /\ main_pc = "gather" /\ running = NoTask
  /\ \A w \in Workers : pc[w] = "cancelled"
  /\ main_pc' = "done"
  /\ UNCHANGED <<constVars, camVars, resultVars, queueVars, pc, camera,
                 put_body, must_cancel, running>>

\* ------------------------------------------------------------------- Spec

Next ==
  \/ \E w \in Workers : Start(w)
  \/ \E w \in Workers : Get(w)
  \/ \E w \in Workers : GetResume(w)
  \/ \E w \in Workers : Download(w)
  \/ \E w \in Workers : FetchResume(w)
  \/ \E w \in Workers : Upload(w)
  \/ \E w \in Workers : PutResume(w)
  \/ \E w \in Workers : TaskDone(w)
  \/ \E w \in Workers : Put(w)
  \/ \E w \in Workers : Cancelled(w)
  \/ JoinReturns
  \/ CancelTasks
  \/ GatherReturns

Spec == Init /\ [][Next]_vars

\* what one task does when the event loop runs it
WorkerStep(w) ==
  /\ w \in Workers
  /\ \/ Start(w) \/ Get(w) \/ GetResume(w) \/ Download(w) \/ FetchResume(w)
     \/ Upload(w) \/ PutResume(w) \/ TaskDone(w) \/ Put(w) \/ Cancelled(w)

MainStep == JoinReturns \/ CancelTasks \/ GatherReturns

\* The event loop runs its ready callbacks in FIFO order, and every GET and
\* put_object resolves (with a result, an error or the timeout): a task that
\* is ready again and again, whenever the loop is free, is run.
FairSpec ==
  /\ Spec
  /\ \A w \in 1..MaxWorkers : SF_vars(WorkerStep(w))
  /\ SF_vars(MainStep)

\* The same program with up to MaxHung devices that accept the connection
\* and never answer, ahead of the answering ones in the roster, and one
\* more worker for each of them (the pool is larger than their number).
HungInit ==
  \E k \in 0..MaxHung :
    InitWith({n + k : n \in 1..MaxCameras}, {MaxWorkers + k}, {EXCEPTION_LIMIT}, k)

HungSpec == HungInit /\ [][Next]_vars

\* A worker whose GET never resolves is never ready again; all the others
\* are scheduled as in FairSpec.
HungFairSpec ==
  /\ HungSpec
  /\ \A w \in 1..(MaxWorkers + MaxHung) : SF_vars(WorkerStep(w))
  /\ SF_vars(MainStep)

TypeOK ==
  /\ exception_limit \in Limits
  /\ \A c \in Cameras :
       /\ cams[c].image \in {None} \cup {Some(b) : b \in Bodies}
       /\ cams[c].exception_count \in 0..exception_limit
       /\ cams[c].is_fallback_uploaded \in BOOLEAN
       /\ store[c] \in {None, Some(FallbackImg)} \cup {Some(b) : b \in Bodies}
       /\ streak[c] \in -1..MaxStreak
  /\ \A w \in Workers : camera[w] \in Cameras \cup {0}
  /\ unfinished_tasks \in 0..Cardinality(Cameras)
  /\ running \in Workers \cup {NoTask}
  /\ hung \subseteq Cameras
  /\ \A c \in Cameras : ahead[c] \subseteq Cameras \ {c}

\* ----------------------------------------------------------------- claims

\* exception_count >= exception_limit, read off the Camera's fields
Disabled(c) == cams[c].exception_count >= exception_limit

InQueue(c) == {i \in DOMAIN queue : queue[i] = c}
Holders(c) == {w \in Workers : camera[w] = c}
InCycle(w) == pc[w] \in {"download", "fetching", "upload", "putting", "task_done", "put"}
InFlight(w) == pc[w] \in {"fetching", "putting"}

\* C1: every Camera is in the queue exactly once or held by exactly one
\* worker, never both and never by two workers; a worker holds a Camera
\* only from its get() to its put() (or for good, once it was cancelled
\* in the middle of the cycle), so no two cycles of a Camera overlap.
C1_MutualExclusion ==
  /\ \A c \in Cameras : Cardinality(InQueue(c)) + Cardinality(Holders(c)) = 1
  /\ \A w \in Workers : camera[w] # 0 => (InCycle(w) \/ pc[w] = "cancelled")
  /\ \A w \in Workers : InCycle(w) => camera[w] \in Cameras

\* two workers run the cycles of two different Cameras at the same time
C1_Witness ==
  \E w1, w2 \in Workers :
    /\ w1 # w2 /\ pc[w1] = "fetching" /\ pc[w2] = "putting"
    /\ camera[w1] # camera[w2] /\ queue = <<>>

\* C2: a disabled Camera whose fallback is uploaded never blocks the other
\* Cameras: whenever such a Camera exists and a worker has a GET or a
\* put_object in flight, that worker is resumed with the completion (its
\* Camera's cycle goes on), whatever the workers that serve disabled
\* Cameras do.
C2_DisabledNeverBlocks ==
  \A w \in 1..MaxWorkers :
    ((w \in Workers) /\ InFlight(w)
       /\ \E c \in Cameras : Disabled(c) /\ cams[c].is_fallback_uploaded)
      ~> ((w \in Workers) /\ ~InFlight(w))

\* C3: queue.join() never returns: main stays in the join and no worker is
\* ever cancelled.
C3_JoinNeverReturns ==
  /\ main_pc = "join"
  /\ \A w \in Workers : pc[w] # "cancelled" /\ ~must_cancel[w]

\* C4: after N consecutive non-client fetch failures since the last
\* success (or since construction), exception_count = min(N, exception_limit).
\* streak counts N up to MaxStreak, where it stands for "MaxStreak or more".
C4_FailureCounting ==
  \A c \in Cameras :
    (streak[c] >= 0 /\ (streak[c] < MaxStreak \/ exception_limit <= MaxStreak))
      => cams[c].exception_count = Min(streak[c], exception_limit)

\* C5: a fetch that ends in an HTTP status in [400, 500) leaves
\* exception_count = exception_limit, whatever it was, so the Camera is
\* disabled right after that fetch; a status >= 500 does not force the
\* count to the limit (it rises by one at most).
C5_ClientErrorDisables ==
  [][\A w \in Workers :
       (pc[w] = "fetching" /\ pc'[w] = "upload") =>
         LET c == camera[w] IN
           /\ fetch_result'[w] = "http_4xx" =>
                /\ cams'[c].exception_count = exception_limit
                /\ is_disabled(cams'[c])
           /\ fetch_result'[w] = "http_5xx" =>
                cams'[c].exception_count <= cams[c].exception_count + 1]_vars

\* a Camera with the default limit of 5 is disabled by its first 4xx
C5_Witness ==
  \E w \in Workers :
    /\ pc[w] = "upload" /\ fetch_result[w] = "http_4xx"
    /\ exception_limit = EXCEPTION_LIMIT
    /\ cams[camera[w]].exception_count = EXCEPTION_LIMIT

\* C6: a successful download leaves the fetched bytes in image and
\* exception_count = 0; no other step (failed download, refused download of
\* a disabled Camera, upload, requeue) ever lowers exception_count.
C6_SuccessResets ==
  [][\A w \in Workers :
       LET c == camera[w] IN
         /\ (pc[w] = "fetching" /\ pc'[w] = "upload" /\ fetch_result'[w] = "ok") =>
              /\ cams'[c].exception_count = 0
              /\ \E b \in Bodies : cams'[c].image = Some(b)
         /\ \A d \in Cameras :
              cams'[d].exception_count < cams[d].exception_count =>
                \E v \in Workers :
                  camera[v] = d /\ pc[v] = "fetching" /\ fetch_result'[v] = "ok"]_vars

\* a download has just succeeded with a real image
C6_Witness ==
  \E w \in Workers :
    /\ pc[w] = "upload" /\ fetch_result[w] = "ok"
    /\ cams[camera[w]].image = Some(<<1>>)
    /\ cams[camera[w]].exception_count = 0

\* C7: a disabled Camera stays disabled, and no step issues a GET for a
\* Camera that is disabled.
C7_DisabledPermanent ==
  [][\A c \in Cameras :
       Disabled(c) =>
         /\ cams'[c].exception_count >= exception_limit'
         /\ \A w \in Workers :
              (camera[w] = c /\ pc'[w] = "fetching") => pc[w] = "fetching"]_vars

\* a disabled Camera has been taken from the queue again and refused
C7_Witness ==
  \E w \in Workers :
    /\ pc[w] = "upload" /\ fetch_result[w] = "disabled"
    /\ Disabled(camera[w])

C9_NoStaleRepublish ==
  \A w \in Workers :
    (pc[w] = "putting" /\ fetch_result[w] # "ok") =>
      /\ put_body[w] = Some(FallbackImg)
      /\ cams[camera[w]].image = None

\* a Camera whose real image is in the store fails its next fetch and
\* uploads the fallback
C9_Witness ==
  \E w \in Workers :
    /\ pc[w] = "putting" /\ fetch_result[w] = "request_error"
    /\ store[camera[w]] = Some(<<1>>)
    /\ put_body[w] = Some(FallbackImg)

\* C10: once a put_object of the fallback image is confirmed, and until the
\* next successful fetch, upload starts no put_object and reports success:
\* it either is the upload that wrote the fallback or it skipped the write.
C10_FallbackOnce ==
  \A w \in Workers :
    (camera[w] # 0 /\ fallback_confirmed[camera[w]]) =>
      /\ pc[w] # "putting"
      /\ pc[w] \in {"task_done", "put"} =>
           upload_result[w] \in {"wrote_fallback", "skipped"}

\* the fallback was written in an earlier cycle; this cycle's fetch failed
\* again and its upload skipped the write
C10_Witness ==
  \E w \in Workers :
    /\ pc[w] = "task_done" /\ upload_result[w] = "skipped"
    /\ fetch_result[w] \in NonClientFailures
    /\ fallback_confirmed[camera[w]]
    /\ store[camera[w]] = Some(FallbackImg)

\* C11: after a cycle whose upload wrote a real image under the Camera's
\* key, is_fallback_uploaded is False and the object is that image; after a
\* cycle whose upload wrote the fallback image, is_fallback_uploaded is True
\* and the object is the fallback.
C11_FlagFollowsWrite ==
  \A w \in Workers :
    pc[w] \in {"task_done", "put"} =>
      LET c == camera[w] IN
        /\ upload_result[w] = "wrote_image" =>
             /\ ~cams[c].is_fallback_uploaded
             /\ store[c] = cams[c].image
             /\ store[c] \notin {None, Some(FallbackImg)}
        /\ upload_result[w] = "wrote_fallback" =>
             /\ cams[c].is_fallback_uploaded
             /\ store[c] = Some(FallbackImg)

\* a cycle has just written the real image of one Camera and left its flag
\* False, while the last write of another Camera was the fallback and its
\* flag is True
C11_Witness ==
  \E w \in Workers :
    /\ pc[w] = "task_done"
    /\ upload_result[w] = "wrote_image"
    /\ fetch_result[w] = "ok"
    /\ store[camera[w]] = Some(<<1>>)
    /\ ~cams[camera[w]].is_fallback_uploaded
    /\ \E d \in Cameras \ {camera[w]} :
         /\ store[d] = Some(FallbackImg)
         /\ cams[d].is_fallback_uploaded

\* C12: an upload whose put_object raised, or returned an empty response,
\* leaves is_fallback_uploaded as it was before the upload, whatever the
\* image and the flag were.
C12_FailedUploadKeepsFlag ==
  [][\A w \in Workers :
       (pc[w] = "putting" /\ pc'[w] = "task_done" /\ upload_result'[w] = "failed")
         => cams'[camera[w]].is_fallback_uploaded
              = cams[camera[w]].is_fallback_uploaded]_vars

\* C13: whenever is_fallback_uploaded is True, the object last written under
\* the Camera's key is the fallback image (a failed put_object leaving the
\* object as it was); so whenever upload() skips the write, the store
\* already holds the fallback for that Camera.
C13_FlagMeansFallbackStored ==
  /\ \A c \in Cameras :
       cams[c].is_fallback_uploaded => store[c] = Some(FallbackImg)
  /\ \A w \in Workers :
       (pc[w] \in {"task_done", "put"} /\ upload_result[w] = "skipped")
         => store[camera[w]] = Some(FallbackImg)

\* upload() has just skipped the write for a Camera whose flag is True and
\* whose object is the fallback, while another Camera's object is a real
\* image and its flag is False
C13_Witness ==
  \E w \in Workers :
    /\ pc[w] = "task_done"
    /\ upload_result[w] = "skipped"
    /\ cams[camera[w]].is_fallback_uploaded
    /\ store[camera[w]] = Some(FallbackImg)
    /\ \E d \in Cameras \ {camera[w]} :
         store[d] = Some(<<1>>) /\ ~cams[d].is_fallback_uploaded

\* the positions of a worker task that has neither been cancelled nor ended
\* by an exception
Alive(w) ==
  pc[w] \in {"start", "get", "wait_get", "get_woken", "download", "fetching",
             "upload", "putting", "task_done", "put"}

\* C14: whatever download() or upload() raises is caught inside the worker:
\* until main cancels the tasks every one of the max_workers workers is
\* alive, and every Camera is either on the queue or in the cycle of an
\* alive worker that will mark it done and put it back.
C14_FailureIsolation ==
  main_pc \in {"join", "closed"} =>
    /\ \A w \in Workers : Alive(w)
    /\ \A c \in Cameras :
         \/ InQueue(c) # {}
         \/ \E w \in Workers : camera[w] = c /\ InCycle(w) /\ Alive(w)
    /\ \A w \in Workers :
         pc[w] \in {"task_done", "put"} =>
           /\ fetch_result[w] \in FetchOutcomes \cup {"disabled"}
           /\ upload_result[w] \in {"skipped", "wrote_fallback", "wrote_image", "failed"}

\* both the download and the upload of a cycle have raised, the worker is
\* about to put the Camera back, and the whole pool is alive
C14_Witness ==
  /\ main_pc = "join"
  /\ Cardinality(Workers) = MaxWorkers
  /\ \A w \in Workers : Alive(w)
  /\ \E w \in Workers :
       /\ pc[w] = "put"
       /\ fetch_result[w] \in FetchOutcomes \ {"ok"}
       /\ upload_result[w] = "failed"

\* a worker has completed the download+upload cycle of Camera c and is
\* about to put it back
CycleCompleted(c) == \E w \in Workers : pc[w] = "put" /\ camera[w] = c

\* C15: with fewer hung devices than workers, every Camera that is not hung
\* completes download+upload cycles again and again under fair scheduling.
C15_NoHeadOfLineBlocking ==
  \A c \in 1..(MaxCameras + MaxHung) :
    \/ hung = {}
    \/ c \in hung
    \/ c \notin Cameras
    \/ []<>CycleCompleted(c)

\* the `async with` blocks of main have been left: the S3 client and the
\* HTTP session are closed
ClientsClosed == main_pc \in {"closed", "gather", "done"}

\* C16: at shutdown no GET or put_object is in flight once the shared
\* clients are closed, a worker that has exited is not in the middle of a
\* cycle, and main returns only after every worker task has ended.
C16_CleanShutdown ==
  /\ \A w \in Workers : InFlight(w) => ~ClientsClosed
  /\ \A w \in Workers : pc[w] = "cancelled" => camera[w] = 0
  /\ main_pc = "done" => \A w \in Workers : pc[w] = "cancelled"

\* C17: workers take the head of the queue and put the Camera back at the
\* tail: a Camera starts its next cycle only after every Camera that was
\* waiting in the queue when it was put back has started a cycle, and
\* while it waits those Cameras are ahead of it in the queue.
C17_RoundRobin ==
  /\ \A w \in Workers : InCycle(w) => ahead[camera[w]] = {}
  /\ \A c \in Cameras : \A i \in InQueue(c) :
       ahead[c] \subseteq {queue[j] : j \in 1..(i - 1)}

\* after a completed cycle each, Camera c has been put back while Camera d
\* was waiting: both wait, d at the head and c behind it
C17_Witness ==
  \E c, d \in Cameras :
    /\ c # d
    /\ queue = <<d, c>>
    /\ ahead[c] = {d}
    /\ store[c] # None /\ store[d] # None

\* download() of the worker's current cycle has returned or raised
DownloadResolved(w) == fetch_result[w] \notin {"none", "pending"}

\* C18: in every cycle upload() is attempted once, after the download of
\* that cycle has resolved, whether it succeeded or failed: no upload has
\* started while the download is pending, and a cycle reaches task_done
\* only with a resolved download and an upload that was attempted.
C18_CycleShape ==
  \A w \in Workers :
    /\ pc[w] \in {"download", "fetching"} => upload_result[w] = "none"
    /\ pc[w] = "upload" => DownloadResolved(w) /\ upload_result[w] = "none"
    /\ pc[w] = "putting" => DownloadResolved(w) /\ upload_result[w] = "pending"
    /\ pc[w] \in {"task_done", "put"} =>
         /\ DownloadResolved(w)
         /\ upload_result[w] \in {"skipped", "wrote_fallback", "wrote_image", "failed"}

\* a cycle whose download failed has gone on to upload, which wrote the
\* fallback, while another worker's cycle uploaded after a successful fetch
C18_Witness ==
  \E w, v \in Workers :
    /\ pc[w] = "task_done"
    /\ fetch_result[w] \in FetchOutcomes \ {"ok"}
    /\ upload_result[w] = "wrote_fallback"
    /\ pc[v] = "putting"
    /\ fetch_result[v] = "ok"

\* C19: an upload that fails (put_object raises or returns an empty
\* response) goes through _raise_exception and leaves exception_count one
\* higher than it was.
C19_UploadFailureCounts ==
  [][\A w \in Workers :
       (pc[w] = "putting" /\ pc'[w] = "task_done" /\ upload_result'[w] = "failed")
         => cams'[camera[w]].exception_count
              = cams[camera[w]].exception_count + 1]_vars

\* C20: a disabled Camera holds no image, and exception_count always lies
\* between 0 and exception_limit; so after download()'s early exit for a
\* disabled Camera, upload() has no real image to publish.
C20_DisabledHoldsNoImage ==
  /\ \A c \in Cameras :
       /\ cams[c].exception_count >= 0
       /\ cams[c].exception_count <= exception_limit
       /\ Disabled(c) => cams[c].image = None
  /\ \A w \in Workers :
       (pc[w] \in {"upload", "putting"} /\ fetch_result[w] = "disabled")
         => Body(cams[camera[w]]) = FallbackImg

\* a Camera that published a real image earlier is disabled; download() has
\* refused the fetch and upload() is about to run with no image
C20_Witness ==
  \E w \in Workers :
    /\ pc[w] = "upload"
    /\ fetch_result[w] = "disabled"
    /\ Disabled(camera[w])
    /\ cams[camera[w]].image = None
    /\ store[camera[w]] = Some(<<1>>)

====
